---- MODULE Spec2Model ----
(***************************************************************************)
(* Model of cosmos_transfer1/diffusion/config/training/experiment/         *)
(* ctrl_7b_tp_sample_av_mv.py: the builder make_ctrlnet_config, the        *)
(* variant deriver make_small_config, and the module-level generation loop *)
(* that registers the experiments in the ConfigStore.                      *)
(*                                                                         *)
(* Python objects are modelled as a heap: every dict / LazyDict / LazyCall *)
(* node is an object at an address, a mapping from keys to cells; a cell   *)
(* holds a scalar, a list, or a reference to another object.               *)
(***************************************************************************)
EXTENDS Integers, Sequences, FiniteSets, TLC

VARIABLES
    heap,        \* address -> object (key -> cell): the live Python dicts
    registry,    \* ConfigStore repo: insertion-ordered entries [group, name, node]
    ckpts,       \* the constants imported from cosmos_transfer1.checkpoints
    pc,          \* position of the module-level code
    ki, fi,      \* indices of the two module-level for loops
    t2v_config, debug_config, config, tp_ckpt_path,   \* module globals of the loop
    h_cfg, h_small,   \* a caller's locals after import: a built tree, a derived tree
                      \* (an address; 0 while unassigned)
    nstores, nmut,    \* how many stores / mutations the caller has done
    resolved,    \* what the driver composed last: [name, layers, tree]
    call         \* frame of the operation executed last: name, arguments, result

vars == <<heap, registry, ckpts, pc, ki, fi, t2v_config, debug_config, config,
          tp_ckpt_path, h_cfg, h_small, nstores, nmut, resolved, call>>

-----------------------------------------------------------------------------
(* Cells *)

I(n) == [t |-> "int", v |-> n]
S(s) == [t |-> "str", v |-> s]
B(b) == [t |-> "bool", v |-> b]
F(s) == [t |-> "float", v |-> s]
Lst(q) == [t |-> "list", v |-> q]
Ref(a) == [t |-> "ref", v |-> a]

-----------------------------------------------------------------------------
(* Strings: str.replace, os.path.dirname / basename / join, f-strings *)

Substr(s, i, j) == IF i > j THEN "" ELSE SubSeq(s, i, j)

StartsWith(s, p) == Len(p) <= Len(s) /\ Substr(s, 1, Len(p)) = p

EndsWith(s, p) == Len(p) <= Len(s) /\ Substr(s, Len(s) - Len(p) + 1, Len(s)) = p

RECURSIVE RFindFrom(_, _, _)
RFindFrom(s, ch, i) ==
    IF i = 0 THEN 0
    ELSE IF Substr(s, i, i) = ch THEN i
    ELSE RFindFrom(s, ch, i - 1)

\* 1-based position of the last occurrence of the character, 0 when absent
RFind(s, ch) == RFindFrom(s, ch, Len(s))

RECURSIVE RStrip(_, _)
RStrip(s, ch) ==
    IF Len(s) > 0 /\ Substr(s, Len(s), Len(s)) = ch
    THEN RStrip(Substr(s, 1, Len(s) - 1), ch)
    ELSE s

RECURSIVE ReplaceFrom(_, _, _, _)
ReplaceFrom(s, old, new, i) ==
    IF i > Len(s) THEN ""
    ELSE IF i + Len(old) - 1 <= Len(s) /\ Substr(s, i, i + Len(old) - 1) = old
         THEN new \o ReplaceFrom(s, old, new, i + Len(old))
         ELSE Substr(s, i, i) \o ReplaceFrom(s, old, new, i + 1)

\* s.replace(old, new) for a non-empty old
Replace(s, old, new) == ReplaceFrom(s, old, new, 1)

dirname(p) ==
    LET i == RFind(p, "/")
        head == Substr(p, 1, i)
    IN IF head # "" /\ RStrip(head, "/") # "" THEN RStrip(head, "/") ELSE head

basename(p) == Substr(p, RFind(p, "/") + 1, Len(p))

join2(a, b) ==
    IF StartsWith(b, "/") THEN b
    ELSE IF a = "" \/ EndsWith(a, "/") THEN a \o b
    ELSE a \o "/" \o b

RECURSIVE path_join(_)
\* os.path.join(parts[1], parts[2], ...)
path_join(parts) ==
    IF Len(parts) = 1 THEN parts[1]
    ELSE join2(path_join(SubSeq(parts, 1, Len(parts) - 1)), parts[Len(parts)])

\* str(n) inside an f-string
Str(n) == ToString(n)

-----------------------------------------------------------------------------
(* Module constants *)

num_blocks == 28
num_control_blocks == 3
ckpt_root == "checkpoints/"
data_root == "datasets/waymo_transfer/"

all_hint_key == <<"control_input_hdmap", "control_input_lidar">>
loop_num_frames == <<57, 121>>

\* mv_model_names: short hint key -> checkpoint constant
mv_model_names(c) == [k \in {"hdmap", "lidar"} |->
                        IF k = "hdmap" THEN c.hdmap ELSE c.lidar]

-----------------------------------------------------------------------------
(* Heap of Python objects *)

Max(Q) == CHOOSE x \in Q : \A y \in Q : y <= x

\* the next address the allocator hands out
NextAddr(h) == IF DOMAIN h = {} THEN 1 ELSE Max(DOMAIN h) + 1

\* obj[key] where the cell is a reference: the address of the nested object
Sub(h, a, key) == h[a][key].v

RECURSIVE Nav(_, _, _)
\* tree[path[1]][path[2]]...: the address of the object the path leads to
Nav(h, a, path) ==
    IF path = <<>> THEN a ELSE Nav(h, Sub(h, a, Head(path)), Tail(path))

\* tree[path...][key]: the cell read
Get(h, a, path, key) == h[Nav(h, a, path)][key]

\* tree[path...][key] = cell (item assignment: adds the key when absent)
SetItem(h, a, path, key, cell) ==
    LET o == Nav(h, a, path)
    IN [h EXCEPT ![o] = [k \in DOMAIN h[o] \cup {key} |->
                            IF k = key THEN cell ELSE h[o][k]]]

RECURSIVE ReachFrom(_, _, _)
ReachFrom(h, frontier, seen) ==
    IF frontier = {} THEN seen
    ELSE LET nxt == UNION {{h[a][k].v : k \in {kk \in DOMAIN h[a] : h[a][kk].t = "ref"}}
                           : a \in frontier}
         IN ReachFrom(h, nxt \ (seen \cup frontier), seen \cup frontier)

\* the addresses of the objects a tree consists of
Reach(h, root) == ReachFrom(h, {root}, {})

RECURSIVE Value(_, _)
\* the tree as a nested value (references followed): what == compares
Value(h, a) ==
    [k \in DOMAIN h[a] |->
        IF h[a][k].t = "ref" THEN [t |-> "tree", v |-> Value(h, h[a][k].v)]
        ELSE h[a][k]]

-----------------------------------------------------------------------------
(* make_ctrlnet_config *)

\* the objects one call creates, in the order the model lays them out
Layout == <<"root", "job", "optimizer", "checkpoint", "trainer", "callbacks",
            "iter_speed", "model_parallel", "model", "base_load_from",
            "conditioner", "video_cond_bool", "net", "net_ctrl", "tokenizer",
            "model_obj", "dataloader_train", "sampler_train", "dataloader_val",
            "sampler_val", "dataset">>

Off(name) == (CHOOSE i \in 1..Len(Layout) : Layout[i] = name) - 1

\* a job name that leaves the frame count out
job_name_no_frames(hint_key, ncb, pretrain_model_path, t2v, num_frames) ==
    "CTRL_7Bv1pt3_" \o (IF t2v THEN "t2v" ELSE "lvg") \o "_sv2mv_" \o hint_key
        \o "_block" \o Str(ncb)
        \o (IF pretrain_model_path = "" THEN "_pretrain" ELSE "_posttrain")

job_name(hint_key, ncb, pretrain_model_path, t2v, num_frames) ==
    IF pretrain_model_path = ""
    THEN IF t2v
         THEN "CTRL_7Bv1pt3_t2v_sv2mv_" \o Str(num_frames) \o "frames_" \o hint_key
                  \o "_block" \o Str(ncb) \o "_pretrain"
         ELSE "CTRL_7Bv1pt3_lvg_sv2mv_" \o Str(num_frames) \o "frames_" \o hint_key
                  \o "_block" \o Str(ncb) \o "_pretrain"
    ELSE IF t2v
         THEN "CTRL_7Bv1pt3_t2v_sv2mv_" \o Str(num_frames) \o "frames_" \o hint_key
                  \o "_block" \o Str(ncb) \o "_posttrain"
         ELSE "CTRL_7Bv1pt3_lvg_sv2mv_" \o Str(num_frames) \o "frames_" \o hint_key
                  \o "_block" \o Str(ncb) \o "_posttrain"

\* a project that ignores the checkpoint path
job_project_always_pretrain(pretrain_model_path) == "cosmos_transfer1_pretrain"

job_project(pretrain_model_path) ==
    IF pretrain_model_path = "" THEN "cosmos_transfer1_pretrain"
    ELSE "cosmos_transfer1_posttrain"

\* one entry of the defaults list; the "_self_" sentinel has no layer name
Override(axis, name) == [axis |-> axis, name |-> name]
SelfEntry == [axis |-> "_self_", name |-> ""]

\* the defaults list with the "_self_" entry left out
defaults_no_self(hint_key) ==
    << Override("net", "faditv2_7b"),
       Override("net_ctrl", "faditv2_sv2mv"),
       Override("conditioner", "view_cond_ctrlnet_add_fps_image_size_padding_mask"),
       Override("tokenizer", "cosmos_diffusion_tokenizer_res720_comp8x8x8_t121_ver092624"),
       Override("hint_key", hint_key),
       Override("callbacks", "basic"),
       Override("checkpoint", "local"),
       Override("ckpt_klass", "fast_tp") >>

\* the defaults list with "_self_" first, before the named layers
defaults_self_first(hint_key) ==
    << SelfEntry,
       Override("net", "faditv2_7b"),
       Override("net_ctrl", "faditv2_sv2mv"),
       Override("conditioner", "view_cond_ctrlnet_add_fps_image_size_padding_mask"),
       Override("tokenizer", "cosmos_diffusion_tokenizer_res720_comp8x8x8_t121_ver092624"),
       Override("hint_key", hint_key),
       Override("callbacks", "basic"),
       Override("checkpoint", "local"),
       Override("ckpt_klass", "fast_tp") >>

defaults(hint_key) ==
    << Override("net", "faditv2_7b"),
       Override("net_ctrl", "faditv2_sv2mv"),
       Override("conditioner", "view_cond_ctrlnet_add_fps_image_size_padding_mask"),
       Override("tokenizer", "cosmos_diffusion_tokenizer_res720_comp8x8x8_t121_ver092624"),
       Override("hint_key", hint_key),
       Override("callbacks", "basic"),
       Override("checkpoint", "local"),
       Override("ckpt_klass", "fast_tp"),
       SelfEntry >>

\* a mask that tests i > num_control_blocks
layer_mask_strict(ncb) == [j \in 1..num_blocks |-> (j - 1) > ncb]

\* [True if (i >= num_control_blocks) else False for i in range(num_blocks)]
layer_mask(ncb) == [j \in 1..num_blocks |-> (j - 1) >= ncb]

\* a temporal extent computed as num_frames // 8 + 1
latent_shape_no_minus_one(num_frames) == <<16, (num_frames \div 8) + 1, 88, 160>>

latent_shape(num_frames) == <<16, ((num_frames - 1) \div 8) + 1, 88, 160>>

base_load_path(c) ==
    path_join(<<ckpt_root, dirname(c.base), "checkpoints_tp", "model_model_mp_*.pt">>)

\* L(AVTransferDataset)(...)
DatasetObj(hint_key, num_frames) ==
    [_target_ |-> S("AVTransferDataset"),
     dataset_dir |-> S(data_root),
     num_frames |-> I(num_frames),
     hint_key |-> S(hint_key),
     resolution |-> S("720"),
     view_keys |-> Lst(<<"pinhole_front", "pinhole_front_left", "pinhole_front_right",
                         "pinhole_side_left", "pinhole_side_right">>),
     caption_view_idx_map |-> Lst(<<<<0, 0>>, <<1, 1>>, <<2, 2>>, <<3, 4>>, <<4, 5>>>>),
     sample_n_views |-> I(3),
     load_mv_emb |-> B(FALSE),
     is_train |-> B(TRUE)]

\* L(DataLoader)(dataset=..., sampler=L(get_sampler)(dataset=...), ...)
DataLoaderObj(dataset, sampler) ==
    [_target_ |-> S("DataLoader"),
     dataset |-> Ref(dataset),
     sampler |-> Ref(sampler),
     batch_size |-> I(1),
     drop_last |-> B(TRUE),
     pin_memory |-> B(TRUE),
     num_workers |-> I(8)]

SamplerObj(dataset) == [_target_ |-> S("get_sampler"), dataset |-> Ref(dataset)]

\* the object the call creates for each name of Layout, laid out from address base
CtrlnetObj(name, base, c, hint_key, ncb, pretrain_model_path, t2v, num_frames) ==
    LET A(n) == base + Off(n) IN
    CASE name = "root" ->
           [defaults |-> Lst(defaults(hint_key)),
            job |-> Ref(A("job")),
            optimizer |-> Ref(A("optimizer")),
            checkpoint |-> Ref(A("checkpoint")),
            trainer |-> Ref(A("trainer")),
            model_parallel |-> Ref(A("model_parallel")),
            model |-> Ref(A("model")),
            model_obj |-> Ref(A("model_obj")),
            dataloader_train |-> Ref(A("dataloader_train")),
            dataloader_val |-> Ref(A("dataloader_val"))]
      [] name = "job" ->
           [group |-> S("CTRL_7Bv1_sampleAV"),
            project |-> S(job_project(pretrain_model_path)),
            name |-> S(job_name(hint_key, ncb, pretrain_model_path, t2v, num_frames))]
      [] name = "optimizer" ->
           [lr |-> F("2 ** (-14.3)"), weight_decay |-> F("0.1"),
            betas |-> Lst(<<"0.9", "0.99">>), eps |-> F("1e-10")]
      [] name = "checkpoint" ->
           [load_path |-> S(pretrain_model_path),
            broadcast_via_filesystem |-> B(TRUE),
            save_iter |-> I(1000),
            load_training_state |-> B(FALSE),
            strict_resume |-> B(FALSE),
            keys_not_to_resume |-> Lst(<<>>)]
      [] name = "trainer" ->
           [distributed_parallelism |-> S("ddp"),
            logging_iter |-> I(200),
            max_iter |-> I(999999999),
            callbacks |-> Ref(A("callbacks")),
            timestamp_seed |-> B(TRUE)]
      [] name = "callbacks" -> [iter_speed |-> Ref(A("iter_speed"))]
      [] name = "iter_speed" -> [hit_thres |-> I(5)]
      [] name = "model_parallel" ->
           [tensor_model_parallel_size |-> I(8), sequence_parallel |-> B(TRUE)]
      [] name = "model" ->
           [fsdp_enabled |-> B(FALSE),
            n_views |-> I(3),
            context_parallel_size |-> I(1),
            loss_reduce |-> S("mean"),
            latent_shape |-> Lst(latent_shape(num_frames)),
            base_load_from |-> Ref(A("base_load_from")),
            finetune_base_model |-> B(FALSE),
            hint_mask |-> Lst(<<TRUE>>),
            hint_dropout_rate |-> F("0.15"),
            conditioner |-> Ref(A("conditioner")),
            net |-> Ref(A("net")),
            adjust_video_noise |-> B(TRUE),
            net_ctrl |-> Ref(A("net_ctrl")),
            tokenizer |-> Ref(A("tokenizer"))]
      [] name = "base_load_from" -> [load_path |-> S(base_load_path(c))]
      [] name = "conditioner" -> [video_cond_bool |-> Ref(A("video_cond_bool"))]
      [] name = "video_cond_bool" ->
           [condition_location |-> S("first_random_n"),
            cfg_unconditional_type |-> S("zero_condition_region_condition_mask"),
            apply_corruption_to_condition_region |-> S("noise_with_sigma"),
            condition_on_augment_sigma |-> B(FALSE),
            dropout_rate |-> F("0.0"),
            first_random_n_num_condition_t_max |-> I(IF t2v THEN 0 ELSE 2),
            normalize_condition_latent |-> B(FALSE),
            augment_sigma_sample_p_mean |-> F("-3.0"),
            augment_sigma_sample_p_std |-> F("2.0"),
            augment_sigma_sample_multiplier |-> F("1.0")]
      [] name = "net" ->
           [_target_ |-> S("VideoExtendGeneralDIT"),
            in_channels |-> I(17),
            n_views |-> I(3),
            n_views_emb |-> I(7),
            view_condition_dim |-> I(6),
            add_repeat_frame_embedding |-> B(TRUE),
            extra_per_block_abs_pos_emb |-> B(TRUE),
            pos_emb_learnable |-> B(TRUE),
            extra_per_block_abs_pos_emb_type |-> S("learnable"),
            num_blocks |-> I(num_blocks)]
      [] name = "net_ctrl" ->
           [in_channels |-> I(16),
            hint_channels |-> I(16),
            num_blocks |-> I(num_blocks),
            n_views |-> I(3),
            n_views_emb |-> I(7),
            view_condition_dim |-> I(6),
            add_repeat_frame_embedding |-> B(TRUE),
            is_extend_model |-> B(TRUE),
            layer_mask |-> Lst(layer_mask(ncb)),
            extra_per_block_abs_pos_emb |-> B(TRUE),
            pos_emb_learnable |-> B(TRUE),
            extra_per_block_abs_pos_emb_type |-> S("learnable")]
      [] name = "tokenizer" -> [pixel_chunk_duration |-> I(num_frames)]
      [] name = "model_obj" -> [_target_ |-> S("MultiVideoDiffusionModelWithCtrl")]
      [] name = "dataloader_train" -> DataLoaderObj(A("dataset"), A("sampler_train"))
      [] name = "sampler_train" -> SamplerObj(A("dataset"))
      [] name = "dataloader_val" -> DataLoaderObj(A("dataset"), A("sampler_val"))
      [] name = "sampler_val" -> SamplerObj(A("dataset"))
      [] name = "dataset" -> DatasetObj(hint_key, num_frames)

\* make_ctrlnet_config(...): the heap with the new tree in it, and the tree's root
make_ctrlnet_config(h, c, hint_key, ncb, pretrain_model_path, t2v, num_frames) ==
    LET base == NextAddr(h)
        new  == base .. (base + Len(Layout) - 1)
    IN [heap |-> [a \in DOMAIN h \cup new |->
                    IF a \in new
                    THEN CtrlnetObj(Layout[a - base + 1], base, c, hint_key, ncb,
                                    pretrain_model_path, t2v, num_frames)
                    ELSE h[a]],
        ret |-> base + Off("root")]

-----------------------------------------------------------------------------
(* make_small_config *)

\* copy.copy(tree): only the top-level mapping is new, the nested objects are shared
shallowcopy(h, root) ==
    LET n == NextAddr(h)
    IN [heap |-> [a \in DOMAIN h \cup {n} |-> IF a = n THEN h[root] ELSE h[a]],
        ret |-> n]

\* copy.deepcopy(tree): every object of the tree is cloned at a fresh address,
\* references inside the clone lead to clones (shared objects stay shared)
deepcopy(h, root) ==
    LET old  == Reach(h, root)
        base == NextAddr(h)
        To(a) == base + Cardinality({b \in old : b < a})
        new  == {To(a) : a \in old}
        From(n) == CHOOSE a \in old : To(a) = n
    IN [heap |-> [n \in DOMAIN h \cup new |->
                    IF n \in new
                    THEN [k \in DOMAIN h[From(n)] |->
                            IF h[From(n)][k].t = "ref"
                            THEN Ref(To(h[From(n)][k].v))
                            ELSE h[From(n)][k]]
                    ELSE h[n]],
        ret |-> To(root)]

num_blocks_small == 2

\* the job edits without the name suffix
small_job_no_suffix(h, small_config) ==
    SetItem(h, small_config, <<"job">>, "group", S("debug"))

\* job.group = "debug"; job.name = f"{job.name}_SMALL"
small_job(h, small_config) ==
    LET h1 == SetItem(h, small_config, <<"job">>, "group", S("debug"))
    IN SetItem(h1, small_config, <<"job">>, "name",
               S(Get(h1, small_config, <<"job">>, "name").v \o "_SMALL"))

\* model.net.num_blocks = num_blocks_small
small_net(h, small_config) ==
    SetItem(h, small_config, <<"model", "net">>, "num_blocks", I(num_blocks_small))

\* the net_ctrl edits without the recomputation of the mask
small_net_ctrl_keep_mask(h, small_config, net_ctrl) ==
    IF net_ctrl
    THEN SetItem(h, small_config, <<"model", "net_ctrl">>, "num_blocks",
                 I(num_blocks_small))
    ELSE h

\* if net_ctrl: model.net_ctrl.num_blocks and model.net_ctrl.layer_mask
small_net_ctrl(h, small_config, net_ctrl) ==
    IF net_ctrl
    THEN SetItem(
           SetItem(h, small_config, <<"model", "net_ctrl">>, "num_blocks",
                   I(num_blocks_small)),
           small_config, <<"model", "net_ctrl">>, "layer_mask",
           Lst([j \in 1..num_blocks_small |-> (j - 1) >= (num_blocks_small \div 2)]))
    ELSE h

\* model_parallel.tensor_model_parallel_size = 1; sequence_parallel = False
small_parallel(h, small_config) ==
    SetItem(SetItem(h, small_config, <<"model_parallel">>,
                    "tensor_model_parallel_size", I(1)),
            small_config, <<"model_parallel">>, "sequence_parallel", B(FALSE))

\* the load paths with the base model's path left in place
small_load_paths_keep_base(h, small_config) ==
    SetItem(h, small_config, <<"checkpoint">>, "load_path", S(""))

\* checkpoint.load_path = ""; model.base_load_from.load_path = ""
small_load_paths(h, small_config) ==
    SetItem(SetItem(h, small_config, <<"checkpoint">>, "load_path", S("")),
            small_config, <<"model", "base_load_from">>, "load_path", S(""))

make_small_config(h, base_config, net_ctrl) ==
    LET cp == deepcopy(h, base_config)
        small_config == cp.ret
        h1 == small_job(cp.heap, small_config)
        h2 == small_net(h1, small_config)
        h3 == small_net_ctrl(h2, small_config, net_ctrl)
        h4 == small_parallel(h3, small_config)
        h5 == small_load_paths(h4, small_config)
    IN [heap |-> h5, ret |-> small_config]

-----------------------------------------------------------------------------
(* ConfigStore: cs.store(group=..., package="_global_", name=..., node=...) *)

Key(e) == <<e.group, e.name>>

\* the entries stored under (group, name): positions in the repo
Slots(reg, group, name) == {i \in 1..Len(reg) : Key(reg[i]) = <<group, name>>}

\* a store that always inserts
store_append(reg, group, name, node) ==
    Append(reg, [group |-> group, name |-> name, node |-> node])

\* insert, or overwrite in place when the key exists (last write wins)
store(reg, group, name, node) ==
    LET e == [group |-> group, name |-> name, node |-> node]
    IN IF Slots(reg, group, name) = {}
       THEN Append(reg, e)
       ELSE [i \in 1..Len(reg) |-> IF Key(reg[i]) = <<group, name>> THEN e ELSE reg[i]]

-----------------------------------------------------------------------------
(* Frames of the operation executed last *)

NoCall == [op |-> "none", hint_key |-> "", ncb |-> 0, path |-> "", t2v |-> FALSE,
           nf |-> 0, base |-> 0, net_ctrl |-> FALSE, group |-> "", name |-> "",
           node |-> 0, ret |-> 0]

BuildCall(hint_key, ncb, path, t2v, nf, ret) ==
    [NoCall EXCEPT !.op = "make_ctrlnet_config", !.hint_key = hint_key, !.ncb = ncb,
                   !.path = path, !.t2v = t2v, !.nf = nf, !.ret = ret]

SmallCall(base, net_ctrl, ret) ==
    [NoCall EXCEPT !.op = "make_small_config", !.base = base, !.net_ctrl = net_ctrl,
                   !.ret = ret]

StoreCall(group, name, node) ==
    [NoCall EXCEPT !.op = "store", !.group = group, !.name = name, !.node = node]

OtherCall(op) == [NoCall EXCEPT !.op = op]

-----------------------------------------------------------------------------
(* State after the imports, before the generation loop *)

\* candidate contents of cosmos_transfer1.checkpoints (the three *_dbg paths)
CheckpointModules ==
    { [base  |-> "nvidia/Cosmos-Transfer1-7B-Sample-AV/t2w_base_model.pt",
       hdmap |-> "nvidia/Cosmos-Transfer1-7B-Sample-AV/t2w_hdmap_control.pt",
       lidar |-> "nvidia/Cosmos-Transfer1-7B-Sample-AV/t2w_lidar_control.pt"],
      [base  |-> "base_model.pt", hdmap |-> "hdmap_control.pt",
       lidar |-> "lidar_control.pt"],
      [base  |-> "/mnt/ckpt/base_model.pt", hdmap |-> "/mnt/ckpt/control.pt",
       lidar |-> "/mnt/ckpt/control.pt"] }

NoResolved == [name |-> "", layers |-> <<>>, tree |-> <<>>]

Init ==
    /\ heap = <<>>
    /\ registry = <<>>
    /\ ckpts \in CheckpointModules
    /\ pc = "build_t2v"
    /\ ki = 1
    /\ fi = 1
    /\ t2v_config = 0
    /\ debug_config = 0
    /\ config = 0
    /\ tp_ckpt_path = ""
    /\ h_cfg = 0
    /\ h_small = 0
    /\ nstores = 0
    /\ nmut = 0
    /\ resolved = NoResolved
    /\ call = NoCall

-----------------------------------------------------------------------------
(* The generation loop: for key in all_hint_key: for num_frames in [57, 121] *)

key == all_hint_key[ki]
num_frames == loop_num_frames[fi]

caller_vars == <<h_cfg, h_small, nstores, nmut, resolved>>

\* t2v_config = make_ctrlnet_config(hint_key=key, ..., pretrain_model_path="", ...)
Loop_build_t2v ==
    /\ pc = "build_t2v"
    /\ LET r == make_ctrlnet_config(heap, ckpts, key, num_control_blocks, "", TRUE,
                                    num_frames)
       IN /\ heap' = r.heap
          /\ t2v_config' = r.ret
          /\ call' = BuildCall(key, num_control_blocks, "", TRUE, num_frames, r.ret)
    /\ pc' = "make_small"
    /\ UNCHANGED <<registry, ckpts, ki, fi, debug_config, config, tp_ckpt_path,
                   caller_vars>>

\* debug_config = make_small_config(t2v_config, net_ctrl=True)
Loop_make_small ==
    /\ pc = "make_small"
    /\ LET r == make_small_config(heap, t2v_config, TRUE)
       IN /\ heap' = r.heap
          /\ debug_config' = r.ret
          /\ call' = SmallCall(t2v_config, TRUE, r.ret)
    /\ pc' = "store_t2v"
    /\ UNCHANGED <<registry, ckpts, ki, fi, t2v_config, config, tp_ckpt_path,
                   caller_vars>>

\* cs.store(group="experiment", name=t2v_config["job"]["name"], node=t2v_config)
Loop_store_t2v ==
    /\ pc = "store_t2v"
    /\ LET name == Get(heap, t2v_config, <<"job">>, "name").v
       IN /\ registry' = store(registry, "experiment", name, t2v_config)
          /\ call' = StoreCall("experiment", name, t2v_config)
    /\ pc' = "store_debug"
    /\ UNCHANGED <<heap, ckpts, ki, fi, t2v_config, debug_config, config,
                   tp_ckpt_path, caller_vars>>

\* cs.store(group="experiment", name=debug_config["job"]["name"], node=debug_config)
Loop_store_debug ==
    /\ pc = "store_debug"
    /\ LET name == Get(heap, debug_config, <<"job">>, "name").v
       IN /\ registry' = store(registry, "experiment", name, debug_config)
          /\ call' = StoreCall("experiment", name, debug_config)
    /\ pc' = "ckpt_path"
    /\ UNCHANGED <<heap, ckpts, ki, fi, t2v_config, debug_config, config,
                   tp_ckpt_path, caller_vars>>

\* hint_key_short, pretrain_ckpt_path, tp_ckpt_path
loop_tp_ckpt_path(c, k) ==
    LET hint_key_short == Replace(k, "control_input_", "")
        pretrain_ckpt_path == mv_model_names(c)[hint_key_short]
    IN path_join(<<ckpt_root, dirname(pretrain_ckpt_path), "checkpoints_tp",
                   basename(pretrain_ckpt_path)>>)

Loop_ckpt_path ==
    /\ pc = "ckpt_path"
    /\ Replace(key, "control_input_", "") \in DOMAIN mv_model_names(ckpts)
    /\ tp_ckpt_path' = loop_tp_ckpt_path(ckpts, key)
    /\ call' = OtherCall("tp_ckpt_path")
    /\ pc' = "build_config"
    /\ UNCHANGED <<heap, registry, ckpts, ki, fi, t2v_config, debug_config, config,
                   caller_vars>>

\* config = make_ctrlnet_config(hint_key=key, ..., pretrain_model_path=tp_ckpt_path, ...)
Loop_build_config ==
    /\ pc = "build_config"
    /\ LET r == make_ctrlnet_config(heap, ckpts, key, num_control_blocks,
                                    tp_ckpt_path, TRUE, num_frames)
       IN /\ heap' = r.heap
          /\ config' = r.ret
          /\ call' = BuildCall(key, num_control_blocks, tp_ckpt_path, TRUE,
                               num_frames, r.ret)
    /\ pc' = "store_config"
    /\ UNCHANGED <<registry, ckpts, ki, fi, t2v_config, debug_config, tp_ckpt_path,
                   caller_vars>>

\* cs.store(group="experiment", name=config["job"]["name"], node=config); next round
Loop_store_config ==
    /\ pc = "store_config"
    /\ LET name == Get(heap, config, <<"job">>, "name").v
       IN /\ registry' = store(registry, "experiment", name, config)
          /\ call' = StoreCall("experiment", name, config)
    /\ IF fi < Len(loop_num_frames)
       THEN /\ fi' = fi + 1 /\ ki' = ki /\ pc' = "build_t2v"
       ELSE IF ki < Len(all_hint_key)
            THEN /\ fi' = 1 /\ ki' = ki + 1 /\ pc' = "build_t2v"
            ELSE /\ fi' = fi /\ ki' = ki /\ pc' = "done"
    /\ UNCHANGED <<heap, ckpts, t2v_config, debug_config, config, tp_ckpt_path,
                   caller_vars>>

Loop ==
    \/ Loop_build_t2v
    \/ Loop_make_small
    \/ Loop_store_t2v
    \/ Loop_store_debug
    \/ Loop_ckpt_path
    \/ Loop_build_config
    \/ Loop_store_config

loop_vars == <<ckpts, pc, ki, fi, t2v_config, debug_config, config, tp_ckpt_path>>

-----------------------------------------------------------------------------
(* After import: a caller registering further experiments *)

MaxStores == 2

StoreGroups == {"experiment", "debug"}

\* the names a caller stores under: an experiment's own, or one already taken
StoreNames(h, node) ==
    {Get(h, node, <<"job">>, "name").v, Get(h, t2v_config, <<"job">>, "name").v}

Caller_store(group, node) ==
    /\ pc = "done"
    /\ nstores < MaxStores
    /\ \E name \in StoreNames(heap, node) :
          /\ registry' = store(registry, group, name, node)
          /\ call' = StoreCall(group, name, node)
    /\ nstores' = nstores + 1
    /\ UNCHANGED <<heap, loop_vars, h_cfg, h_small, nmut, resolved>>

Next ==
    \/ Loop
    \/ \E group \in StoreGroups, node \in {t2v_config, debug_config, config} :
          Caller_store(group, node)

Spec == Init /\ [][Next]_vars

-----------------------------------------------------------------------------
(* After import: a caller building a tree, deriving its debug variant and       *)
(* editing the variant                                                        *)

HintKeyInputs == {"control_input_hdmap", "control_input_lidar"}
ControlBlockInputs == {0, num_blocks, num_blocks + 1}
PathInputs == {"", "checkpoints/posttrain/checkpoints_tp/iter_000001000.pt"}
FrameInputs == {1, 8, 9}

Caller_build(hint_key, ncb, path, t2v, nf) ==
    /\ pc = "done"
    /\ h_cfg = 0
    /\ LET r == make_ctrlnet_config(heap, ckpts, hint_key, ncb, path, t2v, nf)
       IN /\ heap' = r.heap
          /\ h_cfg' = r.ret
          /\ call' = BuildCall(hint_key, ncb, path, t2v, nf, r.ret)
    /\ UNCHANGED <<registry, loop_vars, h_small, nstores, nmut, resolved>>

Caller_derive(net_ctrl) ==
    /\ pc = "done"
    /\ h_cfg # 0
    /\ h_small = 0
    /\ LET r == make_small_config(heap, h_cfg, net_ctrl)
       IN /\ heap' = r.heap
          /\ h_small' = r.ret
          /\ call' = SmallCall(h_cfg, net_ctrl, r.ret)
    /\ UNCHANGED <<registry, loop_vars, h_cfg, nstores, nmut, resolved>>

MaxMutations == 2

\* field edits a caller applies to a derived tree: tree[path...][key] = cell
Mutations ==
    { [path |-> <<"model", "net">>, key |-> "num_blocks", cell |-> I(5)],
      [path |-> <<"model", "net_ctrl">>, key |-> "num_blocks", cell |-> I(5)],
      [path |-> <<"checkpoint">>, key |-> "load_path", cell |-> S("edited.pt")],
      [path |-> <<"job">>, key |-> "name", cell |-> S("edited")],
      [path |-> <<"model_parallel">>, key |-> "tensor_model_parallel_size",
       cell |-> I(4)] }

Caller_mutate(m) ==
    /\ pc = "done"
    /\ h_small # 0
    /\ nmut < MaxMutations
    /\ heap' = SetItem(heap, h_small, m.path, m.key, m.cell)
    /\ nmut' = nmut + 1
    /\ call' = OtherCall("setitem")
    /\ UNCHANGED <<registry, loop_vars, h_cfg, h_small, nstores, resolved>>

NextDerive ==
    \/ Loop
    \/ \E hint_key \in HintKeyInputs, ncb \in ControlBlockInputs, path \in PathInputs,
          t2v \in BOOLEAN, nf \in FrameInputs :
          Caller_build(hint_key, ncb, path, t2v, nf)
    \/ \E net_ctrl \in BOOLEAN : Caller_derive(net_ctrl)
    \/ \E m \in Mutations : Caller_mutate(m)

SpecDerive == Init /\ [][NextDerive]_vars

-----------------------------------------------------------------------------
(* Properties of the registry (checked under Spec) *)

NoDuplicateKeys ==
    \A i, j \in 1..Len(registry) : Key(registry[i]) = Key(registry[j]) => i = j

StoredWhatWasPassed ==
    call.op = "store" =>
        \E i \in 1..Len(registry) :
            /\ Slots(registry, call.group, call.name) = {i}
            /\ registry[i].node = call.node

\* a step leaves every entry whose key is not the one being stored where it is
OtherEntriesKept ==
    \A i \in 1..Len(registry) :
        Key(registry[i]) # <<call'.group, call'.name>> =>
            /\ i <= Len(registry')
            /\ registry'[i] = registry[i]

\* C1: after any sequence of stores the registry holds one entry per (group, name)
\* key, the entry of the key stored last holds the tree that store passed, and a
\* store (also one on an existing key) changes no entry of another key.
C1_StoreLastWriteWins ==
    /\ [](NoDuplicateKeys /\ StoredWhatWasPassed)
    /\ [][OtherEntriesKept]_vars

\* C1 witness: a caller's store on a key the loop already filled replaced that
\* entry's tree by another one, without adding an entry.
C1_Witness ==
    /\ call.op = "store"
    /\ nstores = 1
    /\ Len(registry) = 12
    /\ call.group = "experiment"
    /\ call.node = debug_config
    /\ call.name = Get(heap, t2v_config, <<"job">>, "name").v

DefaultsAxes == <<"net", "net_ctrl", "conditioner", "tokenizer", "hint_key",
                  "callbacks", "checkpoint", "ckpt_klass", "_self_">>

\* C3 as stated: no stored tree holds a defaults list any more.
C3_Original_DefaultsConsumed ==
    \A i \in 1..Len(registry) : "defaults" \notin DOMAIN heap[registry[i].node]

\* C3 amended: every stored tree still carries its defaults list unresolved, the
\* eight axis overrides in order followed by "_self_".
C3_DefaultsStoredUnresolved ==
    \A i \in 1..Len(registry) :
        LET o == heap[registry[i].node] IN
        /\ "defaults" \in DOMAIN o
        /\ Len(o.defaults.v) = Len(DefaultsAxes)
        /\ \A j \in 1..Len(DefaultsAxes) : o.defaults.v[j].axis = DefaultsAxes[j]
        /\ \A j \in 1..(Len(DefaultsAxes) - 1) : o.defaults.v[j].name # ""
        /\ o.defaults.v[5].name
             = Get(heap, registry[i].node, <<"dataloader_train", "dataset">>,
                   "hint_key").v

\* C3 witness: the loop has finished and all its trees are in the registry.
C3_Witness ==
    /\ pc = "done"
    /\ Len(registry) = 12
    /\ \A i \in 1..Len(registry) : "defaults" \in DOMAIN heap[registry[i].node]

\* the names the loop stores, in order
ExpectedNames ==
    << "CTRL_7Bv1pt3_t2v_sv2mv_57frames_control_input_hdmap_block3_pretrain",
       "CTRL_7Bv1pt3_t2v_sv2mv_57frames_control_input_hdmap_block3_pretrain_SMALL",
       "CTRL_7Bv1pt3_t2v_sv2mv_57frames_control_input_hdmap_block3_posttrain",
       "CTRL_7Bv1pt3_t2v_sv2mv_121frames_control_input_hdmap_block3_pretrain",
       "CTRL_7Bv1pt3_t2v_sv2mv_121frames_control_input_hdmap_block3_pretrain_SMALL",
       "CTRL_7Bv1pt3_t2v_sv2mv_121frames_control_input_hdmap_block3_posttrain",
       "CTRL_7Bv1pt3_t2v_sv2mv_57frames_control_input_lidar_block3_pretrain",
       "CTRL_7Bv1pt3_t2v_sv2mv_57frames_control_input_lidar_block3_pretrain_SMALL",
       "CTRL_7Bv1pt3_t2v_sv2mv_57frames_control_input_lidar_block3_posttrain",
       "CTRL_7Bv1pt3_t2v_sv2mv_121frames_control_input_lidar_block3_pretrain",
       "CTRL_7Bv1pt3_t2v_sv2mv_121frames_control_input_lidar_block3_pretrain_SMALL",
       "CTRL_7Bv1pt3_t2v_sv2mv_121frames_control_input_lidar_block3_posttrain" >>

\* how many stores the loop has executed so far
StoresDone ==
    IF pc = "done" THEN 3 * Len(all_hint_key) * Len(loop_num_frames)
    ELSE 3 * ((ki - 1) * Len(loop_num_frames) + (fi - 1))
         + (CASE pc \in {"build_t2v", "make_small", "store_t2v"} -> 0
              [] pc = "store_debug" -> 1
              [] pc \in {"ckpt_path", "build_config", "store_config"} -> 2)

\* the tree the i-th store of the loop passed, as a value
StoredTree(i) ==
    LET n  == (i - 1) \div 3
        k  == all_hint_key[(n \div Len(loop_num_frames)) + 1]
        nf == loop_num_frames[(n % Len(loop_num_frames)) + 1]
        b  == make_ctrlnet_config(<<>>, ckpts, k, num_control_blocks, "", TRUE, nf)
        d  == make_small_config(b.heap, b.ret, TRUE)
        p  == make_ctrlnet_config(<<>>, ckpts, k, num_control_blocks,
                                  loop_tp_ckpt_path(ckpts, k), TRUE, nf)
    IN CASE i % 3 = 1 -> Value(b.heap, b.ret)
         [] i % 3 = 2 -> Value(d.heap, d.ret)
         [] i % 3 = 0 -> Value(p.heap, p.ret)

\* C10: the loop stores, per (hint key, frame count), the from-scratch tree, its
\* debug variant and the post-training tree, in this order, under group
\* "experiment" and the tree's own job name; the names are pairwise distinct, no
\* store overwrites, and at the end the registry has 12 entries, each still equal
\* to the tree stored under its name.
C10_LoopStoresTwelve ==
    nstores = 0 =>
        /\ Len(registry) = StoresDone
        /\ NoDuplicateKeys
        /\ pc = "done" => Len(registry) = 12
        /\ \A i \in 1..Len(registry) :
              /\ registry[i].group = "experiment"
              /\ registry[i].name = ExpectedNames[i]
              /\ Get(heap, registry[i].node, <<"job">>, "name").v = registry[i].name
              /\ Value(heap, registry[i].node) = StoredTree(i)

\* C10 witness: the loop has ended with its twelve entries in the registry.
C10_Witness ==
    /\ pc = "done"
    /\ nstores = 0
    /\ Len(registry) = 12
    /\ registry[12].name = ExpectedNames[12]

-----------------------------------------------------------------------------
(* Properties of the builder and the variant deriver (checked under SpecDerive) *)

Field(tree, path, k) == Get(heap, tree, path, k).v

\* the trees make_ctrlnet_config built that are still referenced
BaseTrees ==
    ({t2v_config, config, h_cfg}
        \cup {registry[i].node : i \in {j \in 1..Len(registry) :
                                          ~EndsWith(registry[j].name, "_SMALL")}})
    \ {0}

\* no step changes any field of any object of a tree make_ctrlnet_config built
BaseTreesUntouched ==
    \A b \in BaseTrees : \A a \in Reach(heap, b) : heap'[a] = heap[a]

\* the base trees in the registry keep the builder's values
StoredBaseTreesIntact ==
    \A i \in 1..Len(registry) :
        ~EndsWith(registry[i].name, "_SMALL") =>
            /\ Field(registry[i].node, <<"model", "net">>, "num_blocks") = 28
            /\ Field(registry[i].node, <<"model_parallel">>,
                     "tensor_model_parallel_size") = 8
            /\ Field(registry[i].node, <<"job">>, "name") = registry[i].name
            /\ ~EndsWith(Field(registry[i].node, <<"job">>, "name"), "_SMALL")

\* C2: make_small_config leaves its base unchanged for either flag, and edits of
\* the derived tree (net.num_blocks, net_ctrl, checkpoint, job, model_parallel)
\* leave every field of the base as it was; the base trees in the registry keep
\* net.num_blocks 28, tensor_model_parallel_size 8 and their job name.
C2_BaseUnaffected ==
    /\ []StoredBaseTreesIntact
    /\ [][BaseTreesUntouched]_vars

\* C2 witness: a derived tree was edited after make_small_config, and differs from
\* its base in the edited nested field.
C2_Witness ==
    /\ h_small # 0
    /\ nmut = MaxMutations
    /\ Field(h_small, <<"model", "net">>, "num_blocks") = 5
    /\ Field(h_small, <<"job">>, "name") = "edited"
    /\ Field(h_cfg, <<"model", "net">>, "num_blocks") = 28

\* C5: the mask of a built tree has length num_blocks, which is
\* net_ctrl.num_blocks, and mask[i] == (i >= num_control_blocks) at every index,
\* also for num_control_blocks = 0 and num_control_blocks >= num_blocks.
C5_MaskConsistent ==
    call.op = "make_ctrlnet_config" =>
        LET mask == Field(call.ret, <<"model", "net_ctrl">>, "layer_mask") IN
        /\ Len(mask) = num_blocks
        /\ Len(mask) = Field(call.ret, <<"model", "net_ctrl">>, "num_blocks")
        /\ \A i \in 0..(Len(mask) - 1) : mask[i + 1] = (i >= call.ncb)

\* C5 witness: a tree built with more control blocks than blocks: the mask is
\* all False.
C5_Witness ==
    /\ call.op = "make_ctrlnet_config"
    /\ call.ncb > num_blocks
    /\ \A i \in 1..num_blocks :
          ~Field(call.ret, <<"model", "net_ctrl">>, "layer_mask")[i]

\* C6 as stated: for either flag, net.num_blocks == net_ctrl.num_blocks == 2 ==
\* len(layer_mask) in the derived tree.
C6_Original_BothFlags ==
    call.op = "make_small_config" =>
        /\ Field(call.ret, <<"model", "net">>, "num_blocks") = 2
        /\ Field(call.ret, <<"model", "net_ctrl">>, "num_blocks") = 2
        /\ Len(Field(call.ret, <<"model", "net_ctrl">>, "layer_mask")) = 2

\* C6 amended: net.num_blocks is 2 for either flag; with net_ctrl=True also
\* net_ctrl.num_blocks == 2 == len(layer_mask), the mask recomputed as
\* mask[i] == (i >= 1); with net_ctrl=False net_ctrl.num_blocks and layer_mask
\* are those of the base (28 blocks, a mask of length 28).
C6_ShrinkByFlag ==
    call.op = "make_small_config" =>
        LET nb   == Field(call.ret, <<"model", "net_ctrl">>, "num_blocks")
            mask == Field(call.ret, <<"model", "net_ctrl">>, "layer_mask")
        IN
        /\ Field(call.ret, <<"model", "net">>, "num_blocks") = 2
        /\ Len(mask) = nb
        /\ call.net_ctrl => /\ nb = 2
                            /\ mask = <<FALSE, TRUE>>
        /\ ~call.net_ctrl =>
              /\ nb = 28
              /\ mask = Field(call.base, <<"model", "net_ctrl">>, "layer_mask")

\* C6 witness: a variant derived with net_ctrl=True from a base whose mask starts
\* with True (num_control_blocks = 0), so that the recomputed mask differs from
\* the first entries of the base's mask.
C6_Witness ==
    /\ call.op = "make_small_config"
    /\ call.net_ctrl
    /\ Field(call.base, <<"model", "net_ctrl">>, "layer_mask")[1]
    /\ ~Field(call.ret, <<"model", "net_ctrl">>, "layer_mask")[1]

\* C7: the derived tree is in group "debug", is named <base name>_SMALL, has
\* tensor_model_parallel_size 1, sequence_parallel False and both load paths
\* empty, whatever the base held.
C7_SmallFields ==
    call.op = "make_small_config" =>
        /\ Field(call.ret, <<"job">>, "group") = "debug"
        /\ Field(call.ret, <<"job">>, "name")
             = Field(call.base, <<"job">>, "name") \o "_SMALL"
        /\ Field(call.ret, <<"model_parallel">>, "tensor_model_parallel_size") = 1
        /\ Field(call.ret, <<"model_parallel">>, "sequence_parallel") = FALSE
        /\ Field(call.ret, <<"checkpoint">>, "load_path") = ""
        /\ Field(call.ret, <<"model", "base_load_from">>, "load_path") = ""

\* C7 witness: a variant derived from a base built with a checkpoint path.
C7_Witness ==
    /\ call.op = "make_small_config"
    /\ Field(call.base, <<"checkpoint">>, "load_path") # ""
    /\ Field(call.base, <<"model", "base_load_from">>, "load_path") # ""
    /\ Field(call.ret, <<"checkpoint">>, "load_path") = ""

\* C8: latent_shape is [16, T, 88, 160] where T = (num_frames - 1) // 8 + 1, the
\* number of 8-frame chunks after the first frame plus one: 121 -> 16, 57 -> 8;
\* the debug variant keeps the latent_shape of its base.
C8_LatentShape ==
    /\ call.op = "make_ctrlnet_config" =>
          LET shape == Field(call.ret, <<"model">>, "latent_shape") IN
          /\ Len(shape) = 4
          /\ shape[1] = 16 /\ shape[3] = 88 /\ shape[4] = 160
          /\ 8 * (shape[2] - 1) + 1 <= call.nf
          /\ call.nf <= 8 * shape[2]
          /\ call.nf = 121 => shape[2] = 16
          /\ call.nf = 57 => shape[2] = 8
    /\ call.op = "make_small_config" =>
          Field(call.ret, <<"model">>, "latent_shape")
            = Field(call.base, <<"model">>, "latent_shape")

\* C8 witness: 8 frames fit the first latent frame (T = 1).
C8_Witness ==
    /\ call.op = "make_ctrlnet_config"
    /\ call.nf = 8
    /\ Field(call.ret, <<"model">>, "latent_shape") = <<16, 1, 88, 160>>

\* C9: the job is named
\* CTRL_7Bv1pt3_{t2v|lvg}_sv2mv_{num_frames}frames_{hint_key}_block{n}_{pretrain|posttrain},
\* pretrain and project cosmos_transfer1_pretrain exactly when the path is empty,
\* posttrain and cosmos_transfer1_posttrain otherwise; checkpoint.load_path is the
\* path passed.
C9_JobNaming ==
    call.op = "make_ctrlnet_config" =>
        LET name == Field(call.ret, <<"job">>, "name")
            proj == Field(call.ret, <<"job">>, "project")
        IN
        /\ name = "CTRL_7Bv1pt3_" \o (IF call.t2v THEN "t2v" ELSE "lvg") \o "_sv2mv_"
                    \o ToString(call.nf) \o "frames_" \o call.hint_key \o "_block"
                    \o ToString(call.ncb) \o "_"
                    \o (IF call.path = "" THEN "pretrain" ELSE "posttrain")
        /\ (call.path = "") <=> EndsWith(name, "_pretrain")
        /\ (call.path # "") <=> EndsWith(name, "_posttrain")
        /\ (call.path = "") <=> (proj = "cosmos_transfer1_pretrain")
        /\ (call.path # "") <=> (proj = "cosmos_transfer1_posttrain")
        /\ Field(call.ret, <<"checkpoint">>, "load_path") = call.path
        /\ ( /\ call.hint_key = "control_input_hdmap" /\ call.nf = 121
             /\ call.path = "" /\ call.t2v /\ call.ncb = 3 )
           => name = "CTRL_7Bv1pt3_t2v_sv2mv_121frames_control_input_hdmap_block3_pretrain"

\* C9 witness: a post-training tree of the lvg kind.
C9_Witness ==
    /\ call.op = "make_ctrlnet_config"
    /\ call.path # ""
    /\ ~call.t2v
    /\ Field(call.ret, <<"job">>, "project") = "cosmos_transfer1_posttrain"

-----------------------------------------------------------------------------
(* Composition of a stored experiment by the driver: the override resolver.   *)
(* It runs outside this file; modelled after the specification's section 4.2. *)

Tree(f) == [t |-> "tree", v |-> f]

RECURSIVE Merge(_, _)
\* deep merge, the later source b winning: two nested trees merge recursively,
\* otherwise b's value replaces a's
Merge(a, b) ==
    [k \in DOMAIN a \cup DOMAIN b |->
        IF k \notin DOMAIN b THEN a[k]
        ELSE IF k \notin DOMAIN a THEN b[k]
        ELSE IF a[k].t = "tree" /\ b[k].t = "tree"
             THEN Tree(Merge(a[k].v, b[k].v))
             ELSE b[k]]

\* the tree's own literal fields: everything but the defaults list
Literal(tree) == [k \in DOMAIN tree \ {"defaults"} |-> tree[k]]

\* the source a defaults entry stands for
Source(tree, ns, entry) ==
    IF entry = SelfEntry THEN Literal(tree) ELSE ns[<<entry.axis, entry.name>>]

RECURSIVE ResolveFrom(_, _, _, _)
ResolveFrom(tree, ns, acc, n) ==
    IF n > Len(tree.defaults.v) THEN acc
    ELSE ResolveFrom(tree, ns, Merge(acc, Source(tree, ns, tree.defaults.v[n])), n + 1)

\* the composed tree: the defaults entries merged in list order into an empty tree
Resolve(tree, ns) == ResolveFrom(tree, ns, <<>>, 1)

\* the layers every namespace below provides
LayerKeys ==
    { <<"net", "faditv2_7b">>, <<"net_ctrl", "faditv2_sv2mv">>,
      <<"conditioner", "view_cond_ctrlnet_add_fps_image_size_padding_mask">>,
      <<"tokenizer", "cosmos_diffusion_tokenizer_res720_comp8x8x8_t121_ver092624">>,
      <<"hint_key", "control_input_hdmap">>, <<"hint_key", "control_input_lidar">>,
      <<"callbacks", "basic">>, <<"checkpoint", "local">>,
      <<"ckpt_klass", "fast_tp">> }

\* candidate layer namespaces of the surrounding framework
LayerNamespaceNames == {"conflicting", "scalar_for_tree", "disjoint"}

LayerNamespace(variant) ==
    [lk \in LayerKeys |->
        CASE lk[1] = "net" ->
               [model |-> Tree([net |-> Tree([num_blocks |-> I(36),
                                              model_channels |-> I(4096)]),
                                n_views |-> I(1)])]
          [] lk[1] = "net_ctrl" ->
               IF variant = "disjoint"
               THEN [model |-> Tree([net_ctrl |-> Tree([dropout_ctrl_branch |-> F("0.5")])])]
               ELSE [model |-> Tree([net_ctrl |-> Tree([num_blocks |-> I(36),
                                                        dropout_ctrl_branch |-> F("0.5")]),
                                     n_views |-> I(2)])]
          [] lk[1] = "conditioner" ->
               [model |-> Tree([conditioner |->
                                  Tree([video_cond_bool |-> Tree([dropout_rate |-> F("0.2"),
                                                                  sample_tokens |-> I(4)]),
                                        fps |-> Tree([dropout_rate |-> F("0.0")])])])]
          [] lk[1] = "tokenizer" ->
               IF variant = "scalar_for_tree"
               THEN [model |-> Tree([tokenizer |-> S("cosmos_diffusion_tokenizer")])]
               ELSE [model |-> Tree([tokenizer |-> Tree([pixel_chunk_duration |-> I(9),
                                                         compression |-> S("8x8x8")])])]
          [] lk[1] = "hint_key" ->
               [model |-> Tree([hint_key |-> Tree([hint_key |-> S(lk[2])])])]
          [] lk[1] = "callbacks" ->
               [trainer |-> Tree([callbacks |-> Tree([progress_bar |-> Tree([every_n |-> I(10)]),
                                                      iter_speed |-> Tree([hit_thres |-> I(100),
                                                                           every_n |-> I(100)])])])]
          [] lk[1] = "checkpoint" ->
               IF variant = "conflicting"
               THEN [checkpoint |-> Tree([load_path |-> S("layer.pt"),
                                          save_to_object_store |-> B(FALSE)])]
               ELSE IF variant = "scalar_for_tree"
                    THEN [checkpoint |-> S("local")]
                    ELSE [checkpoint |-> Tree([save_to_object_store |-> B(FALSE)])]
          [] lk[1] = "ckpt_klass" ->
               [ckpt_klass |-> Tree([_target_ |-> S("FastTensorParallelCheckpointer")])] ]

\* the driver composes the experiment stored at position i
Driver_resolve(i, variant) ==
    /\ pc = "done"
    /\ LET tree == Value(heap, registry[i].node)
           ns   == LayerNamespace(variant)
       IN /\ \A n \in 1..Len(tree.defaults.v) :
                tree.defaults.v[n] = SelfEntry
                \/ <<tree.defaults.v[n].axis, tree.defaults.v[n].name>> \in DOMAIN ns
          /\ resolved' = [name |-> registry[i].name, layers |-> variant,
                          tree |-> Resolve(tree, ns)]
    /\ call' = OtherCall("compose")
    /\ UNCHANGED <<heap, registry, loop_vars, h_cfg, h_small, nstores, nmut>>

NextResolve ==
    \/ Loop
    \/ \E i \in 1..Len(registry), variant \in LayerNamespaceNames :
          Driver_resolve(i, variant)

SpecResolve == Init /\ [][NextResolve]_vars

-----------------------------------------------------------------------------
(* Properties of the composition (checked under SpecResolve) *)

RECURSIVE LeafPaths(_)
\* the paths of a tree value that end in a cell that is no nested tree
LeafPaths(v) ==
    UNION { IF v[k].t = "tree"
            THEN {<<k>> \o q : q \in LeafPaths(v[k].v)}
            ELSE {<<k>>} : k \in DOMAIN v }

RECURSIVE HasLeaf(_, _)
HasLeaf(v, p) ==
    /\ Head(p) \in DOMAIN v
    /\ IF Len(p) = 1 THEN v[Head(p)].t # "tree"
       ELSE v[Head(p)].t = "tree" /\ HasLeaf(v[Head(p)].v, Tail(p))

RECURSIVE At(_, _)
At(v, p) == IF Len(p) = 1 THEN v[Head(p)] ELSE At(v[Head(p)].v, Tail(p))

RECURSIVE Touches(_, _)
\* the source g says something at the leaf path p or above it: g holds a value
\* at p, or a cell that is no tree on the way to p
Touches(g, p) ==
    /\ Head(p) \in DOMAIN g
    /\ \/ Len(p) = 1
       \/ g[Head(p)].t # "tree"
       \/ Touches(g[Head(p)].v, Tail(p))

\* the stored tree the driver composed last, and its sources in defaults order
ResolvedFrom ==
    Value(heap, registry[CHOOSE i \in 1..Len(registry) :
                            registry[i].name = resolved.name].node)

ResolvedSources ==
    [n \in 1..Len(ResolvedFrom.defaults.v) |->
        Source(ResolvedFrom, LayerNamespace(resolved.layers),
               ResolvedFrom.defaults.v[n])]

\* C4: every stored tree lists "_self_" last, after the eight axis overrides, and
\* the composed tree holds, for every field of the tree's literal fields, the
\* literal value, also where a named layer sets the same field
\* (checkpoint.load_path, model.net_ctrl.num_blocks); a field that only a layer
\* sets, and that no later source says anything about, keeps the layer's value.
C4_LiteralWinsLayerKeysKept ==
    /\ \A i \in 1..Len(registry) :
          LET d == heap[registry[i].node].defaults.v IN
          /\ Len(d) = 9
          /\ d[Len(d)] = SelfEntry
          /\ \A n \in 1..(Len(d) - 1) : d[n] # SelfEntry
    /\ resolved.name # "" =>
          LET lit == Literal(ResolvedFrom)
              src == ResolvedSources
          IN
          /\ "defaults" \notin DOMAIN resolved.tree
          /\ \A p \in LeafPaths(lit) :
                HasLeaf(resolved.tree, p) /\ At(resolved.tree, p) = At(lit, p)
          /\ \A n \in 1..Len(src) : \A p \in LeafPaths(src[n]) :
                (\A m \in (n + 1)..Len(src) : ~Touches(src[m], p)) =>
                    HasLeaf(resolved.tree, p) /\ At(resolved.tree, p) = At(src[n], p)

\* C4 witness: a composition in which layers set checkpoint.load_path and
\* model.net_ctrl.num_blocks to other values than the literal fields, and the
\* checkpoint layer brings a key of its own.
C4_Witness ==
    /\ resolved.name # ""
    /\ resolved.layers = "conflicting"
    /\ At(LayerNamespace("conflicting")[<<"checkpoint", "local">>],
          <<"checkpoint", "load_path">>) = S("layer.pt")
    /\ At(resolved.tree, <<"checkpoint", "load_path">>) # S("layer.pt")
    /\ At(resolved.tree, <<"model", "net_ctrl", "num_blocks">>) # I(36)
    /\ At(resolved.tree, <<"checkpoint", "save_to_object_store">>) = B(FALSE)
    /\ At(resolved.tree, <<"model", "net_ctrl", "dropout_ctrl_branch">>) = F("0.5")

====
